---- MODULE Spec2Model ----
(***************************************************************************)
(* Model of monitor.py: the diff engine (BenchmarkMonitor._compare), the   *)
(* check cycle (BenchmarkMonitor.check with scrape, _load_data, _save_data *)
(* and send_pushover) and the history file.                                *)
(*                                                                         *)
(* A snapshot is the dict scrape() returns: timestamp, source and data,    *)
(* data mapping the three index keys to lists of {rank, model, score}.     *)
(* Python's None is modelled by the record None below.  Strings are TLA+   *)
(* strings, so len(), slicing and concatenation are computed on them; the  *)
(* emoji of the source (one code point each) are written as one ASCII      *)
(* character each.                                                         *)
(***************************************************************************)
EXTENDS Integers, Sequences, FiniteSets, TLC

VARIABLES
    cmpOld,     \* _compare harness: the argument old
    cmpNew,     \* _compare harness: the argument new
    changes,    \* _compare harness: _compare(old, new)
    reverse,    \* _compare harness: _compare(new, old)
    cmpPc,      \* _compare harness: "ready" before the call, "done" after
    dataFile,   \* the document in DATA_FILE, None while the file does not exist
    historyFile,\* the list in HISTORY_FILE, <<>> while the file does not exist
    clock,      \* the clock: it ticks once a cycle and stamps the snapshot
    token,      \* whether PUSHOVER_API_TOKEN is set
    scraped,    \* latest cycle: what scrape() returned
    old_data,   \* latest cycle: what _load_data() returned, None if not called
    compared,   \* latest cycle: whether _compare was called
    notified,   \* latest cycle: whether send_pushover was called
    msg,        \* latest cycle: the message given to send_pushover, "" if none
    posted,     \* latest cycle: the message given to requests.post, "" if none
    send_result,\* latest cycle: how send_pushover ended, "" if not called
    send_log,   \* latest cycle: what send_pushover logged, "" if not called
    result,     \* latest cycle: what check() returned
    exType,     \* _extract_chart_data harness: the argument index_type
    exLines,    \* _extract_chart_data harness: the lines of the page text
    exChart,    \* _extract_chart_data harness: chart_lines, <<>> before the call
    exModels,   \* _extract_chart_data harness: the list returned
    exPc,       \* _extract_chart_data harness: "ready" before the call, "done" after
    scTexts,    \* scrape harness: the lines the page shows once loaded and after
                \* the click on each tab
    scClicks,   \* scrape harness: what _click_tab returns for each tab
    scRaises,   \* scrape harness: where the driver raises outside _click_tab:
                \* "none", "load" (before the first tab), "save" (after the last)
    scCalls,    \* scrape harness: the calls of _extract_chart_data, in order
    scResult,   \* scrape harness: what scrape() returned
    scPc        \* scrape harness: "ready" before the call, "done" after

cmpVars == <<cmpOld, cmpNew, changes, reverse, cmpPc>>

fileVars == <<dataFile, historyFile, clock>>

cycleVars == <<token, scraped, old_data, compared, notified, msg, posted,
               send_result, send_log, result>>

extractVars == <<exType, exLines, exChart, exModels, exPc>>

scrapeVars == <<scTexts, scClicks, scRaises, scCalls, scResult, scPc>>

vars == <<cmpVars, fileVars, cycleVars, extractVars, scrapeVars>>

----------------------------------------------------------------------------
(* Bounds of the model *)

\* longest list of free names appended to the filler prefix of an input list
MaxTail == 2
\* the filler prefixes have 0 or TopN - PadSpan .. TopN + PadSpan entries
PadSpan == 2
\* check cycles of a run
MaxCycles == 3
\* models of the short-named and of the long-named scrape
ShortCount == 8
LongCount == 10
\* calls of _save_data in the history harness
MaxSaves == 3
\* the history harness starts from a history of 0 or of
\* HistoryCap - PrefillSpan .. HistoryCap snapshots
PrefillSpan == 2

----------------------------------------------------------------------------
(* Data *)

\* Python's None
None == [present |-> FALSE]

\* the keys of index_labels, in the order the dict literal declares them
INDEX_KEYS == <<"intelligence_index", "coding_index", "agentic_index">>

\* the label of a section ("@" stands for the section's emoji)
index_labels(idx_key) ==
    CASE idx_key = "intelligence_index" -> "@ Intelligence"
      [] idx_key = "coding_index" -> "@ Coding"
      [] idx_key = "agentic_index" -> "@ Agentic"

\* the rank threshold of "Rank changes (top 15 only)"
TopN == 15

\* the pairing taken from the end of both lists
MkModelsFromEnd(names, scores) ==
    LET k == IF Len(names) <= Len(scores) THEN Len(names) ELSE Len(scores)
    IN  [i \in 1..k |->
            [rank |-> i, model |-> names[Len(names) - k + i],
             score |-> scores[Len(scores) - k + i]]]

\* the entries _extract_chart_data builds from names and scores paired in
\* order as zip pairs them, up to the end of the shorter: rank is the position
\* in the list
MkModels(names, scores) ==
    LET k == IF Len(names) <= Len(scores) THEN Len(names) ELSE Len(scores)
    IN  [i \in 1..k |-> [rank |-> i, model |-> names[i], score |-> scores[i]]]

\* the dict scrape() returns; the timestamp (an ISO string of
\* datetime.now() in the source) is the reading of the clock
MkSnapshot(ts, intel, coding, agentic) ==
    [present |-> TRUE, timestamp |-> ts, source |-> "https://artificialanalysis.ai/",
     data |-> [intelligence_index |-> intel, coding_index |-> coding,
               agentic_index |-> agentic]]

----------------------------------------------------------------------------
(* BenchmarkMonitor._compare *)

\* {m["model"]: m for m in ms}: the keys of the dict, in insertion order
\* (a repeated name keeps the position of its first occurrence)
DictKeys(ms) ==
    LET first == SelectSeq([i \in 1..Len(ms) |-> i],
                           LAMBDA i : \A j \in 1..(i - 1) : ms[j].model # ms[i].model)
    IN  [k \in 1..Len(first) |-> ms[first[k]].model]

\* {m["model"]: m for m in ms}[name]: a repeated name keeps its last entry
DictGet(ms, name) ==
    ms[CHOOSE i \in 1..Len(ms) :
          /\ ms[i].model = name
          /\ \A j \in (i + 1)..Len(ms) : ms[j].model # name]

\* name in {m["model"]: m for m in ms}
DictHas(ms, name) == \E i \in 1..Len(ms) : ms[i].model = name

\* the entry of a new model; every change entry has the same fields, 0 where
\* the source's string does not carry the value
NewEntry(idx_key, name, data) ==
    [kind |-> "new", index |-> idx_key, model |-> name,
     old_rank |-> 0, new_rank |-> data.rank, score |-> data.score]

\* the entry of a removed model
RemovedEntry(idx_key, name) ==
    [kind |-> "removed", index |-> idx_key, model |-> name,
     old_rank |-> 0, new_rank |-> 0, score |-> 0]

\* the entry of a rank change
RankEntry(idx_key, name, old_rank, new_rank) ==
    [kind |-> "rank", index |-> idx_key, model |-> name,
     old_rank |-> old_rank, new_rank |-> new_rank, score |-> 0]

\* faulty variant of RankChangeReported: both ranks must be in the top 15
RankChangeReportedBoth(old_rank, new_rank) ==
    old_rank # new_rank /\ (old_rank <= TopN /\ new_rank <= TopN)

\* faulty variant of RankChangeReported: the test old_rank != new_rank is lost
RankChangeReportedAlways(old_rank, new_rank) ==
    old_rank <= TopN \/ new_rank <= TopN

\* the condition under which a rank change is reported
RankChangeReported(old_rank, new_rank) ==
    old_rank # new_rank /\ (old_rank <= TopN \/ new_rank <= TopN)

\* faulty variant of NewModels: the test "name not in old_models" is lost
NewModelsAll(idx_key, old_ms, new_ms) ==
    LET names == DictKeys(new_ms)
    IN  [k \in 1..Len(names) |-> NewEntry(idx_key, names[k], DictGet(new_ms, names[k]))]

\* first loop of a section: names of new_models not in old_models
NewModels(idx_key, old_ms, new_ms) ==
    LET names == SelectSeq(DictKeys(new_ms), LAMBDA name : ~DictHas(old_ms, name))
    IN  [k \in 1..Len(names) |-> NewEntry(idx_key, names[k], DictGet(new_ms, names[k]))]

\* second loop of a section: names of old_models not in new_models
RemovedModels(idx_key, old_ms, new_ms) ==
    LET names == SelectSeq(DictKeys(old_ms), LAMBDA name : ~DictHas(new_ms, name))
    IN  [k \in 1..Len(names) |-> RemovedEntry(idx_key, names[k])]

\* third loop of a section: names in both whose rank change is reported
RankChanges(idx_key, old_ms, new_ms) ==
    LET names == SelectSeq(DictKeys(new_ms),
                           LAMBDA name : /\ DictHas(old_ms, name)
                                         /\ RankChangeReported(DictGet(old_ms, name).rank,
                                                               DictGet(new_ms, name).rank))
    IN  [k \in 1..Len(names) |-> RankEntry(idx_key, names[k],
                                           DictGet(old_ms, names[k]).rank,
                                           DictGet(new_ms, names[k]).rank)]

\* faulty variant of SectionChanges: the removed models come first
SectionChangesRemovedFirst(idx_key, old, new) ==
    LET old_ms == old.data[idx_key]
        new_ms == new.data[idx_key]
    IN  RemovedModels(idx_key, old_ms, new_ms)
        \o NewModels(idx_key, old_ms, new_ms)
        \o RankChanges(idx_key, old_ms, new_ms)

\* the body of the loop over index_labels, for one section
SectionChanges(idx_key, old, new) ==
    LET old_ms == old.data[idx_key]
        new_ms == new.data[idx_key]
    IN  NewModels(idx_key, old_ms, new_ms)
        \o RemovedModels(idx_key, old_ms, new_ms)
        \o RankChanges(idx_key, old_ms, new_ms)

\* the loop over index_labels.items()
RECURSIVE CompareFrom(_, _, _)
CompareFrom(k, old, new) ==
    IF k > Len(INDEX_KEYS) THEN <<>>
    ELSE SectionChanges(INDEX_KEYS[k], old, new) \o CompareFrom(k + 1, old, new)

\* _compare(old, new)
Compare(old, new) ==
    IF ~old.present \/ ~new.present THEN <<>>
    ELSE CompareFrom(1, old, new)

----------------------------------------------------------------------------
(* Values of the variables of a part of the program that has not run *)

\* what check() returned: nothing yet
NoResult == [state |-> "none", has_changes |-> FALSE, changes |-> <<>>]

\* no cycle has run
NoCycle ==
    /\ scraped = None
    /\ old_data = None
    /\ compared = FALSE
    /\ notified = FALSE
    /\ msg = ""
    /\ posted = ""
    /\ send_result = ""
    /\ send_log = ""
    /\ result = NoResult

\* neither file exists
NoFiles ==
    /\ dataFile = None
    /\ historyFile = <<>>
    /\ clock = 0

\* the _compare harness is not used
NoCompare ==
    /\ cmpOld = None
    /\ cmpNew = None
    /\ changes = <<>>
    /\ reverse = <<>>
    /\ cmpPc = "idle"

\* the _extract_chart_data harness is not used
NoExtract ==
    /\ exType = ""
    /\ exLines = <<>>
    /\ exChart = <<>>
    /\ exModels = <<>>
    /\ exPc = "idle"

\* the scrape harness is not used
NoBrowser ==
    /\ scTexts = <<>>
    /\ scClicks = <<>>
    /\ scRaises = "none"
    /\ scCalls = <<>>
    /\ scResult = None
    /\ scPc = "idle"

\* neither harness of the scraper is used
NoScraper == NoExtract /\ NoBrowser

----------------------------------------------------------------------------
(* Inputs of the _compare harness *)

\* names of the filler prefix
Filler(i) == IF i < 10 THEN "model-0" \o ToString(i) ELSE "model-" \o ToString(i)

TailNames == {"GPT-X", "Claude-Y"}

\* sequences of at most n names, repeated names included
RECURSIVE SeqsUpTo(_, _)
SeqsUpTo(S, n) ==
    IF n = 0 THEN {<<>>}
    ELSE LET shorter == SeqsUpTo(S, n - 1)
         IN  shorter \cup {Append(s, x) : s \in shorter, x \in S}

Pads == {0} \cup ((TopN - PadSpan)..(TopN + PadSpan))

\* a score for the model at a position (scores lie in 10..99)
ScoreAt(i) == 99 - i

\* a list of p fillers followed by the names of tail
PaddedList(p, tail) ==
    LET names == [i \in 1..p |-> Filler(i)] \o tail
    IN  MkModels(names, [i \in 1..Len(names) |-> ScoreAt(i)])

RichLists == {PaddedList(p, t) : p \in Pads, t \in SeqsUpTo(TailNames, MaxTail)}

\* what the two sections other than the varied one hold, before and after:
\* one name new, one removed, one moved
OtherOld == PaddedList(0, <<"GPT-X", "Claude-Y">>)
OtherNew == PaddedList(0, <<"Claude-Y", "Gemini-Z">>)

\* a snapshot whose section k holds rich and whose other sections hold other
FocusSnapshot(k, rich, other) ==
    MkSnapshot(1, IF k = 1 THEN rich ELSE other,
                  IF k = 2 THEN rich ELSE other,
                  IF k = 3 THEN rich ELSE other)

----------------------------------------------------------------------------
(* The _compare harness *)

\* the arguments of the call: two snapshots that differ in one section's rich
\* lists and in what the other sections hold, or the same snapshot twice, or
\* None for either of them
InitCompare ==
    /\ \/ \E k \in 1..3, ro \in RichLists, rn \in RichLists :
              /\ cmpOld = FocusSnapshot(k, ro, OtherOld)
              /\ cmpNew = FocusSnapshot(k, rn, OtherNew)
       \/ \E k \in 1..3, r \in RichLists, o \in {<<>>, OtherOld, OtherNew} :
              /\ cmpOld = FocusSnapshot(k, r, o)
              /\ cmpNew = cmpOld
       \/ \E r \in RichLists :
              /\ cmpOld \in {None, FocusSnapshot(1, r, <<>>)}
              /\ cmpNew \in {None, FocusSnapshot(1, r, <<>>)}
              /\ None \in {cmpOld, cmpNew}
    /\ changes = <<>>
    /\ reverse = <<>>
    /\ cmpPc = "ready"
    /\ NoFiles
    /\ token = FALSE
    /\ NoCycle
    /\ NoScraper

\* one call of _compare each way
DoCompare ==
    /\ cmpPc = "ready"
    /\ changes' = Compare(cmpOld, cmpNew)
    /\ reverse' = Compare(cmpNew, cmpOld)
    /\ cmpPc' = "done"
    /\ UNCHANGED <<cmpOld, cmpNew, fileVars, cycleVars, extractVars, scrapeVars>>

NextCompare == DoCompare

SpecCompare == InitCompare /\ [][NextCompare]_vars

----------------------------------------------------------------------------
(* send_pushover *)

\* the "Pushover limit" of message[:1024]
PushoverLimit == 1024

Min(a, b) == IF a < b THEN a ELSE b

\* message[:1024]
Truncate(message) == SubSeq(message, 1, Min(Len(message), PushoverLimit))

\* how requests.post can end: status 200, another status, an exception
Transports == {"200", "500", "error"}

\* faulty variant of SendPushover: an exception of requests.post is not caught
SendPushoverNoCatch(message, transport) ==
    IF ~token THEN [ended |-> "False", log |-> "skipping", posted |-> ""]
    ELSE [ended |-> CASE transport = "200" -> "True"
                      [] transport = "500" -> "False"
                      [] transport = "error" -> "raise",
          log |-> CASE transport = "200" -> "sent"
                    [] transport = "500" -> "error"
                    [] transport = "error" -> "",
          posted |-> Truncate(message)]

\* send_pushover(title, message, ...): how the call ends ("True", "False",
\* or "raise" for an exception that leaves it), what it logs ("skipping
\* notification", "Pushover sent", "Pushover error", "Pushover failed") and
\* the "message" of the data given to requests.post ("" when nothing is
\* posted)
SendPushover(message, transport) ==
    IF ~token THEN [ended |-> "False", log |-> "skipping", posted |-> ""]
    ELSE [ended |-> CASE transport = "200" -> "True"
                      [] transport = "500" -> "False"
                      [] transport = "error" -> "False",
          log |-> CASE transport = "200" -> "sent"
                    [] transport = "500" -> "error"
                    [] transport = "error" -> "failed",
          posted |-> Truncate(message)]

----------------------------------------------------------------------------
(* The strings of _compare and the message of check *)

\* the f-strings of _compare ("N", "X", "^", "v" and ">" stand for the new,
\* removed, up and down emoji and for the arrow, one code point each)
Render(c) ==
    LET label == index_labels(c.index)
    IN  CASE c.kind = "new" ->
               "N " \o label \o ": " \o c.model \o " (#" \o ToString(c.new_rank)
                    \o ", score " \o ToString(c.score) \o ")"
          [] c.kind = "removed" ->
               "X " \o label \o ": " \o c.model \o " removed"
          [] c.kind = "rank" ->
               (IF c.old_rank - c.new_rank > 0 THEN "^" ELSE "v") \o " " \o label
                    \o ": " \o c.model \o " #" \o ToString(c.old_rank)
                    \o ">#" \o ToString(c.new_rank)

\* "\n".join(lines)
RECURSIVE JoinLines(_)
JoinLines(lines) ==
    IF lines = <<>> THEN ""
    ELSE IF Len(lines) = 1 THEN lines[1]
    ELSE lines[1] \o "\n" \o JoinLines(Tail(lines))

\* the number of changes the message lists: changes[:10]
MaxInMessage == 10

\* faulty variant of AlertMessage: the suffix counts every change
AlertMessageCountAll(chs) ==
    LET head == SubSeq(chs, 1, Min(Len(chs), MaxInMessage))
        body == JoinLines([i \in 1..Len(head) |-> Render(head[i])])
    IN  IF Len(chs) > MaxInMessage
        THEN body \o "\n+" \o ToString(Len(chs)) \o " more..."
        ELSE body

\* msg of check(): the first 10 changes, then "+N more..."
AlertMessage(chs) ==
    LET head == SubSeq(chs, 1, Min(Len(chs), MaxInMessage))
        body == JoinLines([i \in 1..Len(head) |-> Render(head[i])])
    IN  IF Len(chs) > MaxInMessage
        THEN body \o "\n+" \o ToString(Len(chs) - MaxInMessage) \o " more..."
        ELSE body

----------------------------------------------------------------------------
(* BenchmarkScraper.scrape *)

\* names of 80 characters, the longest _is_model_name accepts
LongFiller(i) ==
    "Extremely-Long-Model-Name-With-Many-Qualifiers-Instruct-Preview-Experimental-v"
        \o (IF i < 10 THEN "0" ELSE "") \o ToString(i)

\* a list of n models with names of 80 characters
LongList(n) ==
    MkModels([i \in 1..n |-> LongFiller(i)], [i \in 1..n |-> ScoreAt(i)])

\* what _extract_chart_data returns on each tab of a rendered page
PageEmpty == [intel |-> <<>>, coding |-> <<>>, agentic |-> <<>>]
PageA ==
    [intel |-> PaddedList(0, <<"GPT-X", "Claude-Y">>),
     coding |-> PaddedList(0, <<"GPT-X", "Claude-Y">>),
     agentic |-> PaddedList(0, <<"Claude-Y">>)]
PageB == [intel |-> PaddedList(0, <<"Claude-Y", "GPT-X">>), coding |-> <<>>, agentic |-> <<>>]
PageShort == [intel |-> PaddedList(ShortCount, <<>>), coding |-> <<>>, agentic |-> <<>>]
PageLong == [intel |-> LongList(LongCount), coding |-> <<>>, agentic |-> <<>>]

Pages == {PageEmpty, PageA, PageB, PageShort, PageLong}

\* scrape(): None if the driver raises; else the three lists, a section
\* whose tab click failed keeping the [] it was initialised with
Scrape(page, raises, click_coding, click_agentic, now) ==
    IF raises THEN None
    ELSE MkSnapshot(now, page.intel,
                    IF click_coding THEN page.coding ELSE <<>>,
                    IF click_agentic THEN page.agentic ELSE <<>>)

----------------------------------------------------------------------------
(* BenchmarkMonitor: the files *)

\* the "Keep last 500" of history[-500:]
HistoryCap == 500

\* faulty variant of KeepLast: history[:500]
KeepFirst(history) ==
    IF Len(history) > HistoryCap THEN SubSeq(history, 1, HistoryCap) ELSE history

\* history[-500:]
KeepLast(history) ==
    IF Len(history) > HistoryCap
    THEN SubSeq(history, Len(history) - HistoryCap + 1, Len(history))
    ELSE history

\* _load_data(): the document of DATA_FILE, None if there is no file.  A
\* document of strings, integers, lists and dicts with string keys is what
\* json.load reads back from what json.dump wrote, so the file is modelled
\* by the document.
LoadData == dataFile

\* faulty variant of SaveData: the history file is not written
SaveDataNoHistory(data) ==
    /\ dataFile' = data
    /\ UNCHANGED historyFile

\* _save_data(data): write DATA_FILE, then append to the history read from
\* HISTORY_FILE ([] if there is no file), keep the last 500 and write it back.
\* The writes are taken to succeed (the except branch is for a file system
\* that refuses them).
SaveData(data) ==
    /\ dataFile' = data
    /\ historyFile' = KeepLast(Append(historyFile, data))

----------------------------------------------------------------------------
(* BenchmarkMonitor.check *)

\* sum(len(new_data["data"][k]) for k in the three keys)
TotalModels(data) ==
    Len(data.data.intelligence_index) + Len(data.data.coding_index)
        + Len(data.data.agentic_index)

\* faulty variant of NoDataExtracted: the test total == 0 is lost
NoDataExtractedNever(new_data) == FALSE

\* "if total == 0"
NoDataExtracted(new_data) == TotalModels(new_data) = 0

\* return has_changes, changes
Returned(has_changes, chs) ==
    [state |-> "returned", has_changes |-> has_changes, changes |-> chs]

\* an exception leaves check()
Raised == [state |-> "raised", has_changes |-> FALSE, changes |-> <<>>]

\* the cycle sends nothing
NoSend ==
    /\ notified' = FALSE
    /\ msg' = ""
    /\ posted' = ""
    /\ send_result' = ""
    /\ send_log' = ""

\* what scrape() can return at a time: whatever the page, the driver and
\* the clicks do
ScrapeResults(now) ==
    {Scrape(page, raises, click_coding, click_agentic, now) :
        page \in Pages, raises \in BOOLEAN, click_coding \in BOOLEAN,
        click_agentic \in BOOLEAN}

\* check(): one cycle.  new_data is what scrape() returns; how requests.post
\* ends is chosen where send_pushover is called.
Check(new_data) ==
    LET loaded == LoadData
        chs == Compare(loaded, new_data)
        message == AlertMessage(chs)
    IN  /\ clock < MaxCycles
        /\ clock' = clock + 1
        /\ scraped' = new_data
        /\ UNCHANGED <<token, cmpVars, extractVars, scrapeVars>>
        /\ IF ~new_data.present \/ NoDataExtracted(new_data)
           THEN \* "Scrape failed!" / "No data extracted"
                /\ UNCHANGED <<dataFile, historyFile>>
                /\ old_data' = None
                /\ compared' = FALSE
                /\ NoSend
                /\ result' = Returned(FALSE, <<>>)
           ELSE IF ~loaded.present
           THEN \* first run
                /\ SaveData(new_data)
                /\ old_data' = loaded
                /\ compared' = FALSE
                /\ NoSend
                /\ result' = Returned(FALSE, <<>>)
           ELSE IF chs = <<>>
           THEN \* no changes
                /\ SaveData(new_data)
                /\ old_data' = loaded
                /\ compared' = TRUE
                /\ NoSend
                /\ result' = Returned(FALSE, <<>>)
           ELSE \* changes detected
                \E transport \in Transports :
                    LET sent == SendPushover(message, transport)
                    IN  /\ old_data' = loaded
                        /\ compared' = TRUE
                        /\ notified' = TRUE
                        /\ msg' = message
                        /\ posted' = sent.posted
                        /\ send_result' = sent.ended
                        /\ send_log' = sent.log
                        /\ IF sent.ended = "raise"
                           THEN /\ UNCHANGED <<dataFile, historyFile>>
                                /\ result' = Raised
                           ELSE /\ SaveData(new_data)
                                /\ result' = Returned(Len(chs) > 0, chs)

Init ==
    /\ NoCompare
    /\ NoFiles
    /\ token \in BOOLEAN
    /\ NoCycle
    /\ NoScraper

Next == \E new_data \in ScrapeResults(clock + 1) : Check(new_data)

Spec == Init /\ [][Next]_vars

----------------------------------------------------------------------------
(* The history harness: calls of _save_data on a history near its cap *)

\* a history of n snapshots, the latest made at HistoryCap
Prefilled(n) ==
    [i \in 1..n |-> MkSnapshot(HistoryCap - n + i, PageA.intel, PageA.coding,
                               PageA.agentic)]

InitSave ==
    /\ NoCompare
    /\ \E n \in {0} \cup ((HistoryCap - PrefillSpan)..HistoryCap) :
          /\ historyFile = Prefilled(n)
          /\ dataFile = IF n = 0 THEN None ELSE Prefilled(n)[n]
    /\ clock = HistoryCap
    /\ token = FALSE
    /\ NoCycle
    /\ NoScraper

\* _save_data(data) with the snapshot of a page
SaveCall(page) ==
    /\ clock < HistoryCap + MaxSaves
    /\ clock' = clock + 1
    /\ scraped' = Scrape(page, FALSE, TRUE, TRUE, clock + 1)
    /\ SaveData(scraped')
    /\ UNCHANGED <<cmpVars, extractVars, scrapeVars, token, old_data, compared, notified, msg, posted,
                   send_result, send_log, result>>

NextSave == \E page \in Pages \ {PageEmpty} : SaveCall(page)

SpecSave == InitSave /\ [][NextSave]_vars

----------------------------------------------------------------------------
(* Strings: the str methods and regular expressions the scraper uses, on the
   ASCII characters of the model's lines *)

\* text[i]
CharAt(text, i) == SubSeq(text, i, i)

DigitChars == {"0", "1", "2", "3", "4", "5", "6", "7", "8", "9"}

UpperChars == "ABCDEFGHIJKLMNOPQRSTUVWXYZ"

LowerChars == "abcdefghijklmnopqrstuvwxyz"

\* \s
SpaceChars == {" ", "\t"}

\* c.isalpha()
IsAlpha(c) ==
    \E k \in 1..26 : c = CharAt(UpperChars, k) \/ c = CharAt(LowerChars, k)

\* c.lower()
LowerChar(c) ==
    IF \E k \in 1..26 : c = CharAt(UpperChars, k)
    THEN CharAt(LowerChars, CHOOSE k \in 1..26 : c = CharAt(UpperChars, k))
    ELSE c

\* text.lower()
RECURSIVE LowerStr(_)
LowerStr(text) ==
    IF text = "" THEN ""
    ELSE LowerChar(CharAt(text, 1)) \o LowerStr(SubSeq(text, 2, Len(text)))

\* text.strip()
Strip(text) ==
    LET inner == {i \in 1..Len(text) : CharAt(text, i) \notin SpaceChars}
    IN  IF inner = {} THEN ""
        ELSE SubSeq(text, CHOOSE i \in inner : \A j \in inner : i <= j,
                          CHOOSE i \in inner : \A j \in inner : j <= i)

\* sub in text
Contains(text, sub) ==
    \E i \in 1..(Len(text) - Len(sub) + 1) : SubSeq(text, i, i + Len(sub) - 1) = sub

\* text.startswith(sub)
StartsWith(text, sub) ==
    Len(sub) <= Len(text) /\ SubSeq(text, 1, Len(sub)) = sub

\* text.endswith(sub)
EndsWith(text, sub) ==
    Len(sub) <= Len(text) /\ SubSeq(text, Len(text) - Len(sub) + 1, Len(text)) = sub

\* text.isdigit()
IsDigitStr(text) ==
    text # "" /\ \A i \in 1..Len(text) : CharAt(text, i) \in DigitChars

\* text.count(' ')
CountSpaces(text) == Cardinality({i \in 1..Len(text) : CharAt(text, i) = " "})

\* int(c) of a digit
DigitValue(c) == CHOOSE d \in 0..9 : ToString(d) = c

\* int(text) of a string of digits
RECURSIVE IntOf(_)
IntOf(text) ==
    IF text = "" THEN 0
    ELSE 10 * IntOf(SubSeq(text, 1, Len(text) - 1)) + DigitValue(CharAt(text, Len(text)))

\* the first position from i on whose character is not in chars
RECURSIVE SkipChars(_, _, _)
SkipChars(text, i, chars) ==
    IF i <= Len(text) /\ CharAt(text, i) \in chars
    THEN SkipChars(text, i + 1, chars)
    ELSE i

\* re.match(r'^\d+\s+of\s+\d+\s+models?$', text)
MatchesCountLine(text) ==
    LET a == SkipChars(text, 1, DigitChars)
        b == SkipChars(text, a, SpaceChars)
        c == b + 2
        d == SkipChars(text, c, SpaceChars)
        e == SkipChars(text, d, DigitChars)
        f == SkipChars(text, e, SpaceChars)
        rest == SubSeq(text, f, Len(text))
    IN  /\ a > 1
        /\ b > a
        /\ SubSeq(text, b, b + 1) = "of"
        /\ d > c
        /\ e > d
        /\ f > e
        /\ rest \in {"model", "models"}

\* re.match(r'^[\w\s\-\.\(\)]+$', text)
MatchesNameChars(text) ==
    /\ text # ""
    /\ \A i \in 1..Len(text) :
           LET c == CharAt(text, i)
           IN  \/ IsAlpha(c)
               \/ c \in DigitChars
               \/ c \in SpaceChars
               \/ c \in {"_", "-", ".", "(", ")"}

\* re.sub(r'\s+', ' ', text)
RECURSIVE CollapseSpaces(_)
CollapseSpaces(text) ==
    IF text = "" THEN ""
    ELSE IF CharAt(text, 1) \in SpaceChars
    THEN " " \o CollapseSpaces(SubSeq(text, SkipChars(text, 1, SpaceChars), Len(text)))
    ELSE CharAt(text, 1) \o CollapseSpaces(SubSeq(text, 2, Len(text)))

----------------------------------------------------------------------------
(* BenchmarkScraper: the classification of a line *)

IGNORE_PATTERNS ==
    <<"add model", "specific provider", "artificial analysis",
      "benchmark", "leaderboard", "filter",
      "incorporates", "evaluations", "represents", "average",
      "open weights", "proprietary", "non-reasoning",
      "coding index", "agentic index", "intelligence index",
      "click here", "select", "compare models", "view all",
      "show more", "hide", "show less",
      "subscribe", "newsletter", "contact us", "about us", "privacy",
      "terms of", "cookie", "sign in", "log in", "register">>

\* the longest text _is_model_name accepts
MaxNameLen == 80

\* _is_model_name(text); of the glyphs a name must not start with, "+" is the
\* one in the alphabet of the model's lines
IsModelName(text) ==
    LET text_lower == Strip(LowerStr(text))
    IN  /\ ~(text = "" \/ Len(text) < 2 \/ Len(text) > MaxNameLen)
        /\ ~\E k \in 1..Len(IGNORE_PATTERNS) : Contains(text_lower, IGNORE_PATTERNS[k])
        /\ ~MatchesCountLine(text_lower)
        /\ ~StartsWith(text, "+")
        /\ ~(IsDigitStr(text) \/ Len(text_lower) < 2)
        /\ ~(CountSpaces(text) > 6)
        /\ ~\E p \in {".", "!", "?", ":"} : EndsWith(text, p)
        /\ ~\E p \in {"http://", "https://", "www."} : StartsWith(text_lower, p)
        /\ MatchesNameChars(text)
        /\ \E i \in 1..Len(text) : IsAlpha(CharAt(text, i))

\* _is_score(text): the score, 0 standing for None
IsScore(text) ==
    LET t == Strip(text)
    IN  IF IsDigitStr(t) /\ Len(t) <= 2 /\ IntOf(t) >= 10 /\ IntOf(t) <= 99
        THEN IntOf(t)
        ELSE 0

\* the name _extract_chart_data keeps for a line: the emoji removed (none is
\* left in a line _is_model_name accepts), the whitespace collapsed
CleanName(line) == Strip(CollapseSpaces(line))

----------------------------------------------------------------------------
(* BenchmarkScraper._extract_chart_data: the lines of the section *)

INDEX_TYPES == {"intelligence", "coding", "agentic"}

\* "of 342 models" in line or "+ Add model" in line
IsAnchor(line) == Contains(line, "of 342 models") \/ Contains(line, "+ Add model")

\* '{"@context"' in line
IsStop(line) == Contains(line, "{\"@context\"")

\* the loop of index_type "intelligence" from lines[i] on
RECURSIVE ScanIntelligence(_, _, _, _)
ScanIntelligence(lines, i, in_chart, chart_lines) ==
    IF i > Len(lines) THEN chart_lines
    ELSE LET line == Strip(lines[i])
         IN  IF line = "INTELLIGENCE"
             THEN ScanIntelligence(lines, i + 1, TRUE, chart_lines)
             ELSE IF in_chart /\ line \in {"SPEED", "PRICE"}
             THEN chart_lines
             ELSE IF in_chart /\ line # "" /\ ~Contains(line, "Higher is better")
             THEN ScanIntelligence(lines, i + 1, in_chart, Append(chart_lines, line))
             ELSE ScanIntelligence(lines, i + 1, in_chart, chart_lines)

\* the test for the header of the Coding Index chart at lines[i]
IsCodingHeader(lines, i) ==
    LET line == Strip(lines[i])
    IN  \/ Contains(line, "Artificial Analysis Coding Index")
        \/ IF i + 1 <= Len(lines)
           THEN Contains(line, "Coding Index") /\ Contains(lines[i + 1], "of 342 models")
           ELSE FALSE

\* the first loop of index_type "coding" from lines[i] on
RECURSIVE ScanCoding(_, _, _, _, _)
ScanCoding(lines, i, found_coding_section, in_chart, chart_lines) ==
    IF i > Len(lines) THEN chart_lines
    ELSE LET line == Strip(lines[i])
         IN  IF IsCodingHeader(lines, i)
             THEN ScanCoding(lines, i + 1, TRUE, in_chart, chart_lines)
             ELSE IF found_coding_section /\ IsAnchor(line)
             THEN ScanCoding(lines, i + 1, found_coding_section, TRUE, chart_lines)
             ELSE IF in_chart /\ IsStop(line)
             THEN chart_lines
             ELSE IF in_chart /\ line # ""
             THEN ScanCoding(lines, i + 1, found_coding_section, in_chart,
                             Append(chart_lines, line))
             ELSE ScanCoding(lines, i + 1, found_coding_section, in_chart, chart_lines)

\* the fallback loop of index_type "coding" from lines[i] on
RECURSIVE ScanFallback(_, _, _, _)
ScanFallback(lines, i, in_chart, chart_lines) ==
    IF i > Len(lines) THEN chart_lines
    ELSE LET line == Strip(lines[i])
         IN  IF IsAnchor(line)
             THEN ScanFallback(lines, i + 1, TRUE, chart_lines)
             ELSE IF in_chart /\ IsStop(line)
             THEN chart_lines
             ELSE IF in_chart /\ line # ""
             THEN ScanFallback(lines, i + 1, in_chart, Append(chart_lines, line))
             ELSE ScanFallback(lines, i + 1, in_chart, chart_lines)

\* the loop of index_type "agentic" from lines[i] on
RECURSIVE ScanAgentic(_, _, _, _, _)
ScanAgentic(lines, i, found_agentic, in_chart, chart_lines) ==
    IF i > Len(lines) THEN chart_lines
    ELSE LET line == Strip(lines[i])
         IN  IF Contains(line, "Artificial Analysis Agentic Index")
             THEN ScanAgentic(lines, i + 1, TRUE, in_chart, chart_lines)
             ELSE IF found_agentic /\ IsAnchor(line)
             THEN ScanAgentic(lines, i + 1, found_agentic, TRUE, chart_lines)
             ELSE IF in_chart /\ IsStop(line)
             THEN chart_lines
             ELSE IF in_chart /\ line # ""
             THEN ScanAgentic(lines, i + 1, found_agentic, in_chart,
                              Append(chart_lines, line))
             ELSE ScanAgentic(lines, i + 1, found_agentic, in_chart, chart_lines)

\* chart_lines of index_type "coding" without the fallback loop
CodingChartLinesNoFallback(lines) == ScanCoding(lines, 1, FALSE, FALSE, <<>>)

\* chart_lines of index_type "coding": the fallback runs when the first loop
\* kept no line
CodingChartLines(lines) ==
    LET chart_lines == ScanCoding(lines, 1, FALSE, FALSE, <<>>)
    IN  IF chart_lines = <<>> THEN ScanFallback(lines, 1, FALSE, <<>>) ELSE chart_lines

\* chart_lines of index_type "agentic"
AgenticChartLines(lines) == ScanAgentic(lines, 1, FALSE, FALSE, <<>>)

\* chart_lines for index_type, lines being page_text.split('\n')
ChartLines(index_type, lines) ==
    IF index_type = "intelligence" THEN ScanIntelligence(lines, 1, FALSE, <<>>)
    ELSE IF index_type = "coding" THEN CodingChartLines(lines)
    ELSE AgenticChartLines(lines)

----------------------------------------------------------------------------
(* BenchmarkScraper._extract_chart_data: names, scores and their pairing *)

\* the lines of chart_lines the parse loop looks at
ParsedLines(chart_lines) ==
    SelectSeq(chart_lines, LAMBDA line : line # "Artificial Analysis")

\* the list scores
ChartScores(chart_lines) ==
    LET kept == SelectSeq(ParsedLines(chart_lines), LAMBDA line : IsScore(line) # 0)
    IN  [i \in 1..Len(kept) |-> IsScore(kept[i])]

\* the list names
ChartNames(chart_lines) ==
    LET kept == SelectSeq(ParsedLines(chart_lines),
                          LAMBDA line : /\ IsScore(line) = 0
                                        /\ IsModelName(line)
                                        /\ Len(CleanName(line)) > 2)
    IN  [i \in 1..Len(kept) |-> CleanName(kept[i])]

\* models as the parse of chart_lines leaves it
ParseChart(chart_lines) == MkModels(ChartNames(chart_lines), ChartScores(chart_lines))

\* _extract_chart_data(index_type) on a page whose body text was read:
\* lines is page_text.split('\n')
ExtractChartData(index_type, lines) == ParseChart(ChartLines(index_type, lines))

----------------------------------------------------------------------------
(* The _extract_chart_data harness: one call on the lines of a page *)

\* the longest run of name and score lines drawn for a chart
MaxBody == 4

\* the name and score lines of a chart
ChartTokens == {"GPT-X", "Claude-Y", "85", "80"}

StopLine == "{\"@context\":\"https://schema.org\"}"

\* a page whose section of index_type holds the lines of body, with the
\* caption, the brand label and the lines that follow the section
Framed(index_type, body) ==
    IF index_type = "intelligence"
    THEN <<"HIGHLIGHTS", "INTELLIGENCE",
           "Artificial Analysis Intelligence Index; Higher is better">>
         \o body \o <<"SPEED", "Output Tokens per Second", "Trailing-Z", "70">>
    ELSE <<IF index_type = "coding" THEN "Artificial Analysis Coding Index"
           ELSE "Artificial Analysis Agentic Index",
           "25 of 342 models", "+ Add model from specific provider",
           "Artificial Analysis">>
         \o body \o <<StopLine, "Trailing-Z", "70">>

\* the header lines, the anchor lines, the chart bodies, the stop lines and
\* the trailing lines the other pages are put together from
HeaderLines ==
    {<<>>, <<"Artificial Analysis Coding Index">>, <<"Coding Index">>,
     <<"Artificial Analysis Agentic Index">>, <<"INTELLIGENCE">>}

AnchorLines == {<<>>, <<"25 of 342 models">>, <<"  + Add model">>}

SampleBodies ==
    {<<>>, <<"GPT-X", "85">>,
     <<"Artificial Analysis", "  Llama   3.1 ", "", "Claude-Y", "85", "9", "80">>}

StopLines == {<<>>, <<StopLine>>, <<"SPEED">>}

TailLines == {<<>>, <<"Trailing-Z", "70">>}

InitExtract ==
    /\ NoCompare
    /\ NoFiles
    /\ token = FALSE
    /\ NoCycle
    /\ NoBrowser
    /\ exType \in INDEX_TYPES
    /\ \/ \E body \in SeqsUpTo(ChartTokens, MaxBody) : exLines = Framed(exType, body)
       \/ \E header \in HeaderLines, anchor \in AnchorLines, body \in SampleBodies,
             stop \in StopLines, tail \in TailLines, header_first \in BOOLEAN :
             exLines = (IF header_first THEN header \o anchor ELSE anchor \o header)
                       \o body \o stop \o tail
    /\ exChart = <<>>
    /\ exModels = <<>>
    /\ exPc = "ready"

\* _extract_chart_data(exType) on a page of lines exLines
DoExtract ==
    /\ exPc = "ready"
    /\ exChart' = ChartLines(exType, exLines)
    /\ exModels' = ExtractChartData(exType, exLines)
    /\ exPc' = "done"
    /\ UNCHANGED <<exType, exLines, cmpVars, fileVars, cycleVars, scrapeVars>>

NextExtract == DoExtract

SpecExtract == InitExtract /\ [][NextExtract]_vars

----------------------------------------------------------------------------
(* The scrape harness: one call of scrape() on a browser *)

\* the lines the page shows when _extract_chart_data(index_type) would read
\* it: a click that succeeds shows the tab, one that fails leaves the page
Shown(texts, clicks, index_type) ==
    LET intelligence == IF clicks["intelligence"] THEN texts["intelligence"]
                        ELSE texts["loaded"]
        coding == IF clicks["coding"] THEN texts["coding"] ELSE intelligence
    IN  IF index_type = "intelligence" THEN intelligence
        ELSE IF index_type = "coding" THEN coding
        ELSE IF clicks["agentic"] THEN texts["agentic"] ELSE coding

\* the calls of _extract_chart_data a scrape() that reaches its tabs makes
ExtractCalls(texts, clicks) ==
    <<[index_type |-> "intelligence", lines |-> Shown(texts, clicks, "intelligence")]>>
    \o (IF clicks["coding"]
        THEN <<[index_type |-> "coding", lines |-> Shown(texts, clicks, "coding")]>>
        ELSE <<>>)
    \o (IF clicks["agentic"]
        THEN <<[index_type |-> "agentic", lines |-> Shown(texts, clicks, "agentic")]>>
        ELSE <<>>)

\* scrape() whose tabs are attempted whatever the click returned
ScrapeBrowserAlwaysExtract(texts, clicks, raises, now) ==
    Scrape([intel |-> ExtractChartData("intelligence", Shown(texts, clicks, "intelligence")),
            coding |-> ExtractChartData("coding", Shown(texts, clicks, "coding")),
            agentic |-> ExtractChartData("agentic", Shown(texts, clicks, "agentic"))],
           raises # "none", TRUE, TRUE, now)

\* scrape() on a browser: texts are the lines the page shows once loaded and
\* after each click, clicks what _click_tab returns for each tab
ScrapeBrowser(texts, clicks, raises, now) ==
    Scrape([intel |-> ExtractChartData("intelligence", Shown(texts, clicks, "intelligence")),
            coding |-> ExtractChartData("coding", Shown(texts, clicks, "coding")),
            agentic |-> ExtractChartData("agentic", Shown(texts, clicks, "agentic"))],
           raises # "none", clicks["coding"], clicks["agentic"], now)

\* the page with the tab of index_type selected: the highlights, then the
\* chart of the tab under its header
TabText(index_type, body) ==
    Framed("intelligence", <<"GPT-X", "Claude-Y", "85", "80">>)
    \o <<IF index_type = "intelligence" THEN "Artificial Analysis Intelligence Index"
         ELSE IF index_type = "coding" THEN "Artificial Analysis Coding Index"
         ELSE "Artificial Analysis Agentic Index",
         "25 of 342 models", "+ Add model from specific provider",
         "Artificial Analysis">>
    \o body \o <<StopLine>>

\* the pages of the harness
BrowserTexts ==
    {[loaded |-> loaded,
      intelligence |-> TabText("intelligence", <<"GPT-X", "Claude-Y", "85", "80">>),
      coding |-> coding, agentic |-> agentic] :
        loaded \in {<<"">>, TabText("intelligence", <<"GPT-X", "Claude-Y", "85", "80">>)},
        coding \in {TabText("coding", <<>>),
                    TabText("coding", <<"Claude-Y", "GPT-X", "70", "60">>)},
        agentic \in {<<"">>, TabText("agentic", <<"Claude-Y", "55">>)}}

InitScrape ==
    /\ NoCompare
    /\ NoFiles
    /\ token = FALSE
    /\ NoCycle
    /\ NoExtract
    /\ scTexts \in BrowserTexts
    /\ scClicks \in [INDEX_TYPES -> BOOLEAN]
    /\ scRaises \in {"none", "load", "save"}
    /\ scCalls = <<>>
    /\ scResult = None
    /\ scPc = "ready"

\* scrape()
DoScrape ==
    /\ scPc = "ready"
    /\ scCalls' = IF scRaises = "load" THEN <<>> ELSE ExtractCalls(scTexts, scClicks)
    /\ scResult' = ScrapeBrowser(scTexts, scClicks, scRaises, clock + 1)
    /\ scPc' = "done"
    /\ UNCHANGED <<scTexts, scClicks, scRaises, cmpVars, fileVars, cycleVars, extractVars>>

NextScrape == DoScrape

SpecScrape == InitScrape /\ [][NextScrape]_vars

----------------------------------------------------------------------------
(* Properties of _compare *)

\* the names of a list of models
NamesOf(ms) == {ms[i].model : i \in 1..Len(ms)}

\* the rank a list gives a name: its position, the last one if it is repeated
RankIn(ms, name) ==
    CHOOSE r \in 1..Len(ms) :
        /\ ms[r].model = name /\ ms[r].rank = r
        /\ \A q \in 1..Len(ms) : ms[q].model = name => q <= r

\* the positions of cs holding an entry of a kind for a section and a name
EntriesOf(cs, kind, idx_key, name) ==
    {i \in 1..Len(cs) :
        cs[i].kind = kind /\ cs[i].index = idx_key /\ cs[i].model = name}

\* the names a change list reports with a kind for a section
ReportedNames(cs, kind, idx_key) ==
    {cs[i].model : i \in {j \in 1..Len(cs) : cs[j].kind = kind /\ cs[j].index = idx_key}}

Compared == cmpPc = "done" /\ cmpOld.present /\ cmpNew.present

\* C1: for every section and every name in both lists of the section,
\* _compare emits one rank entry, carrying the old and the new rank, when the
\* ranks differ and one of them is at most 15, and none otherwise; a rank
\* entry is emitted for no other name.
C1_RankMoveIffTop15 ==
    Compared =>
        \A k \in 1..3 :
            LET key == INDEX_KEYS[k]
                old_ms == cmpOld.data[key]
                new_ms == cmpNew.data[key]
            IN  /\ \A name \in NamesOf(old_ms) \cap NamesOf(new_ms) :
                       LET o == RankIn(old_ms, name)
                           n == RankIn(new_ms, name)
                           es == EntriesOf(changes, "rank", key, name)
                       IN  /\ Cardinality(es) =
                                 IF o # n /\ (o <= 15 \/ n <= 15) THEN 1 ELSE 0
                           /\ \A i \in es : changes[i].old_rank = o
                                             /\ changes[i].new_rank = n
                /\ ReportedNames(changes, "rank", key)
                       \subseteq NamesOf(old_ms) \cap NamesOf(new_ms)

\* a name moved from rank 16 to rank 14 and its rank entry was emitted
C1_Witness ==
    /\ Compared
    /\ \E i \in 1..Len(changes) :
           changes[i].kind = "rank" /\ changes[i].old_rank = 16
           /\ changes[i].new_rank = 14

\* C2: for every section the names _compare(A, B) reports as new are those of
\* B's list that are not in A's, each once, the names it reports as removed
\* are those of A's list that are not in B's, each once, and the names
\* _compare(A, B) reports as new are the names _compare(B, A) reports as
\* removed.
C2_AddedRemovedSymmetry ==
    Compared =>
        \A k \in 1..3 :
            LET key == INDEX_KEYS[k]
                old_names == NamesOf(cmpOld.data[key])
                new_names == NamesOf(cmpNew.data[key])
            IN  /\ ReportedNames(changes, "new", key) = new_names \ old_names
                /\ ReportedNames(changes, "removed", key) = old_names \ new_names
                /\ ReportedNames(changes, "new", key)
                     = ReportedNames(reverse, "removed", key)
                /\ \A name \in new_names \cup old_names :
                       /\ Cardinality(EntriesOf(changes, "new", key, name)) <= 1
                       /\ Cardinality(EntriesOf(changes, "removed", key, name)) <= 1

\* one section has a new name and a removed name, and a name in both lists
C2_Witness ==
    /\ Compared
    /\ \E k \in 1..3 :
           /\ ReportedNames(changes, "new", INDEX_KEYS[k]) # {}
           /\ ReportedNames(changes, "removed", INDEX_KEYS[k]) # {}
           /\ NamesOf(cmpOld.data[INDEX_KEYS[k]])
                 \cap NamesOf(cmpNew.data[INDEX_KEYS[k]]) # {}

\* C3: _compare(S, S) is the empty list, for a snapshot with repeated names too.
C3_CompareSelfEmpty ==
    (Compared /\ cmpOld = cmpNew) => changes = <<>>

\* a snapshot with a repeated name in a list was compared with itself
C3_Witness ==
    /\ Compared
    /\ cmpOld = cmpNew
    /\ \E k \in 1..3 :
           Cardinality(NamesOf(cmpOld.data[INDEX_KEYS[k]]))
               < Len(cmpOld.data[INDEX_KEYS[k]])

\* position of a section in the declared order
SectionPos(idx_key) ==
    CASE idx_key = "intelligence_index" -> 1
      [] idx_key = "coding_index" -> 2
      [] idx_key = "agentic_index" -> 3

\* position of a kind of entry within a section
KindPos(kind) ==
    CASE kind = "new" -> 1 [] kind = "removed" -> 2 [] kind = "rank" -> 3

\* C4: in the list _compare returns the entries of intelligence come before
\* those of coding, which come before those of agentic, and within a section
\* the new entries come before the removed ones, which come before the rank
\* entries.
C4_ChangeOrder ==
    cmpPc = "done" =>
        \A i \in 1..Len(changes) : \A j \in (i + 1)..Len(changes) :
            \/ SectionPos(changes[i].index) < SectionPos(changes[j].index)
            \/ /\ changes[i].index = changes[j].index
               /\ KindPos(changes[i].kind) <= KindPos(changes[j].kind)

\* every section has entries, and every section has entries of the three kinds
C4_Witness ==
    /\ Compared
    /\ \A k \in 1..3 : \A kind \in {"new", "removed", "rank"} :
           ReportedNames(changes, kind, INDEX_KEYS[k]) # {}

----------------------------------------------------------------------------
(* Properties of the check cycle *)

\* the step is a check cycle
CycleStep == clock' # clock

\* the latest element of a non-empty history
Latest(history) == history[Len(history)]

\* C5: a cycle whose scrape returns nothing, or whose extraction has no entry
\* in any section, leaves the data file and the history file as they were,
\* calls neither _compare nor send_pushover, posts nothing and returns
\* (False, []).
C5_FailedCycleNoEffect ==
    [][(CycleStep /\ (~scraped'.present \/ TotalModels(scraped') = 0)) =>
          /\ dataFile' = dataFile
          /\ historyFile' = historyFile
          /\ ~compared'
          /\ ~notified'
          /\ posted' = ""
          /\ result' = [state |-> "returned", has_changes |-> FALSE,
                        changes |-> <<>>]]_vars

\* a cycle extracted nothing while a snapshot was persisted
C5_Witness ==
    /\ clock >= 2
    /\ scraped.present
    /\ TotalModels(scraped) = 0
    /\ dataFile.present
    /\ result.state = "returned"

C7_HistoryCapFifo ==
    [][CycleStep =>
          /\ Len(historyFile') <= 500
          /\ Latest(historyFile') = scraped'
          /\ \A i \in 1..(Len(historyFile') - 1) :
                 historyFile'[i].timestamp < historyFile'[i + 1].timestamp
          /\ Len(historyFile) < 500 => historyFile' = Append(historyFile, scraped')
          /\ Len(historyFile) = 500 =>
                 /\ Len(historyFile') = 500
                 /\ \A i \in 1..499 : historyFile'[i] = historyFile[i + 1]]_vars

\* a full history from which the first snapshot of every initial history
\* has been evicted
C7_Witness ==
    /\ Len(historyFile) = 500
    /\ historyFile[1].timestamp > PrefillSpan + 1
    /\ Latest(historyFile) = scraped

\* C8: in a cycle that detected changes, however send_pushover ended, the
\* snapshot is in the data file and last in the history file and check()
\* returns True with the changes of _compare.
C8_SendFailureNoEffect ==
    notified =>
        /\ dataFile = scraped
        /\ Len(historyFile) > 0
        /\ Latest(historyFile) = scraped
        /\ result = [state |-> "returned", has_changes |-> TRUE,
                     changes |-> Compare(old_data, scraped)]
        /\ result.changes # <<>>

\* requests.post raised in a cycle that detected changes
C8_Witness ==
    /\ notified
    /\ send_result = "False"
    /\ send_log = "failed"
    /\ result.has_changes

\* C9: the message check() gives send_pushover is the lines of the first 10
\* changes, in the order of _compare, followed when there are N > 10 changes
\* by the line "+(N-10) more..."; the message given to requests.post is its
\* first 1024 characters at most.
C9_MessageFirstTenAndLimit ==
    notified =>
        LET chs == Compare(old_data, scraped)
            n == Len(chs)
            shown == IF n > 10 THEN 10 ELSE n
            lines == [i \in 1..shown |-> Render(chs[i])]
                         \o (IF n > 10
                             THEN <<"+" \o ToString(n - 10) \o " more...">>
                             ELSE <<>>)
        IN  /\ msg = JoinLines(lines)
            /\ Len(posted) <= 1024
            /\ token => /\ Len(posted) = Min(Len(msg), 1024)
                        /\ posted = SubSeq(msg, 1, Len(posted))

\* more than 10 changes, and the whole message was posted
C9_Witness ==
    /\ notified
    /\ Len(result.changes) > 10
    /\ token
    /\ posted = msg

\* C10: in a cycle where some sections have entries and others have none, no
\* change entry is reported for a section without entries.
C10_MissingSectionNoEntries ==
    (compared /\ result.state = "returned") =>
        \A k \in 1..3 :
            (Len(scraped.data[INDEX_KEYS[k]]) = 0 /\ TotalModels(scraped) > 0) =>
                \A i \in 1..Len(result.changes) :
                    result.changes[i].index # INDEX_KEYS[k]

----------------------------------------------------------------------------
(* Properties of _extract_chart_data *)

\* the accepted names of the section lines of the call, in order
AcceptedNames == ChartNames(exChart)

\* the accepted scores of the section lines of the call, in order
AcceptedScores == ChartScores(exChart)

\* C12: every list _extract_chart_data returns has names that are unique
\* within the list: no two entries share a name.
C12_NamesUnique ==
    exPc = "done" =>
        \A i, j \in 1..Len(exModels) :
            i # j => exModels[i].model # exModels[j].model

\* C13: with N the accepted names and S the accepted scores of the section
\* lines, each in order and whatever their interleaving, the list returned
\* has exactly min(len(N), len(S)) entries, entry i being N[i] with S[i] at
\* rank i: the ranks are 1..k and the unmatched tail is dropped.
C13_PairingMinLength ==
    exPc = "done" =>
        LET k == Min(Len(AcceptedNames), Len(AcceptedScores))
        IN  /\ Len(exModels) = k
            /\ \A i \in 1..k :
                   /\ exModels[i].rank = i
                   /\ exModels[i].model = AcceptedNames[i]
                   /\ exModels[i].score = AcceptedScores[i]

\* a call whose section has more names than scores, a score line standing
\* before a name line
C13_Witness ==
    /\ exPc = "done"
    /\ Len(AcceptedNames) > Len(AcceptedScores)
    /\ Len(AcceptedScores) >= 1
    /\ Len(exModels) = Len(AcceptedScores)
    /\ \E i, j \in 1..Len(exChart) :
           i < j /\ IsScore(exChart[i]) # 0 /\ IsModelName(exChart[j])

\* whether a line of lines is the header of the Coding Index chart
HasCodingHeader(lines) == \E i \in 1..Len(lines) : IsCodingHeader(lines, i)

\* whether a line of lines is the header of the Agentic Index chart
HasAgenticHeader(lines) ==
    \E i \in 1..Len(lines) : Contains(Strip(lines[i]), "Artificial Analysis Agentic Index")

\* whether a line of lines is a generic anchor
HasAnchor(lines) == \E i \in 1..Len(lines) : IsAnchor(Strip(lines[i]))

\* the non-empty lines after the first generic anchor of lines up to the
\* first stop marker that follows it, further anchor lines left out; <<>>
\* when lines has no anchor
AfterAnchor(lines) ==
    LET at(i) == Strip(lines[i])
        anchors == {i \in 1..Len(lines) : IsAnchor(at(i))}
        first == CHOOSE i \in anchors : \A j \in anchors : i <= j
        stops == {i \in (first + 1)..Len(lines) : IsStop(at(i)) /\ ~IsAnchor(at(i))}
        stop == IF stops = {} THEN Len(lines) + 1
                ELSE CHOOSE i \in stops : \A j \in stops : i <= j
        kept == SelectSeq([i \in 1..Len(lines) |-> i],
                          LAMBDA i : /\ first < i
                                     /\ i < stop
                                     /\ at(i) # ""
                                     /\ ~IsAnchor(at(i)))
    IN  IF anchors = {} THEN <<>> ELSE [k \in 1..Len(kept) |-> at(kept[k])]

\* C14 as stated: for coding and for agentic, when the header of the section
\* is not found but a generic anchor line is present, the section lines are
\* the lines after that anchor up to the stop marker, and the result is empty
\* only when no start landmark of either kind has a line to return (no
\* generic anchor, or no line between the first one and the stop marker).
C14_FallbackBothSections ==
    (exPc = "done" /\ exType \in {"coding", "agentic"}) =>
        LET header == IF exType = "coding" THEN HasCodingHeader(exLines)
                      ELSE HasAgenticHeader(exLines)
        IN  /\ (~header /\ HasAnchor(exLines)) => exChart = AfterAnchor(exLines)
            /\ exChart = <<>> => AfterAnchor(exLines) = <<>>

\* C14 amended: for coding, when the header is not found the section lines
\* are the lines after the first generic anchor up to the stop marker, and
\* the coding result is empty only when no line follows a first anchor
\* before the stop marker (no anchor included); for agentic there is no
\* fallback: when the header is not found the result is empty whatever
\* anchors the page has.
C14_FallbackCodingOnly ==
    exPc = "done" =>
        /\ exType = "coding" =>
               /\ ~HasCodingHeader(exLines) => exChart = AfterAnchor(exLines)
               /\ exChart = <<>> => AfterAnchor(exLines) = <<>>
        /\ exType = "agentic" =>
               /\ ~HasAgenticHeader(exLines) => exChart = <<>>
               /\ ~HasAnchor(exLines) => exChart = <<>>

\* a coding call on a page without the coding header whose generic anchor
\* starts a section that yields models
C14_Witness ==
    /\ exPc = "done"
    /\ exType = "coding"
    /\ ~HasCodingHeader(exLines)
    /\ HasAnchor(exLines)
    /\ exChart # <<>>
    /\ Len(exModels) >= 1

----------------------------------------------------------------------------
(* Properties of scrape *)

\* whether scrape() called _extract_chart_data(index_type) on the page shown
Attempted(index_type) ==
    \E k \in 1..Len(scCalls) :
        /\ scCalls[k].index_type = index_type
        /\ scCalls[k].lines = Shown(scTexts, scClicks, index_type)

\* the list of the section of index_type in the result of scrape()
SectionOf(index_type) == scResult.data[index_type \o "_index"]

\* a scrape() that has returned, the driver raising nowhere outside _click_tab
Scraped == scPc = "done" /\ scRaises = "none"

\* C11 as stated: for each of the three sections, when the click on its tab
\* fails the extraction is still attempted against the page shown, and the
\* scrape does not fail.
C11_ExtractAfterFailedClick ==
    Scraped =>
        /\ scResult # None
        /\ \A index_type \in INDEX_TYPES :
               ~scClicks[index_type] =>
                   /\ Attempted(index_type)
                   /\ SectionOf(index_type)
                          = ExtractChartData(index_type,
                                             Shown(scTexts, scClicks, index_type))

\* C11 amended: when the click on the intelligence tab fails the extraction
\* of intelligence is still attempted against the page shown; when the click
\* on the coding or the agentic tab fails the extraction of that section is
\* not attempted and its list stays empty; when a click succeeds the section
\* is extracted from the page shown; whatever the clicks return, the scrape
\* does not fail.
C11_FailedClickSkipsSection ==
    Scraped =>
        /\ scResult # None
        /\ Attempted("intelligence")
        /\ \A index_type \in {"coding", "agentic"} :
               IF scClicks[index_type]
               THEN Attempted(index_type)
               ELSE /\ \A k \in 1..Len(scCalls) : scCalls[k].index_type # index_type
                    /\ SectionOf(index_type) = <<>>
        /\ \A index_type \in INDEX_TYPES :
               Attempted(index_type) =>
                   SectionOf(index_type)
                       = ExtractChartData(index_type, Shown(scTexts, scClicks, index_type))

\* a scrape where the clicks on the intelligence and the coding tab failed:
\* intelligence is extracted from the page as loaded, coding is left empty
\* though the page shown has a chart the coding extraction would read
C11_Witness ==
    /\ Scraped
    /\ ~scClicks["intelligence"]
    /\ ~scClicks["coding"]
    /\ scResult # None
    /\ SectionOf("intelligence") # <<>>
    /\ SectionOf("coding") = <<>>
    /\ ExtractChartData("coding", Shown(scTexts, scClicks, "coding")) # <<>>

====
